---- MODULE Spec2Model ----
(***************************************************************************)
(* Model of the dual-model proxy of src/src/index.js: one inbound          *)
(* POST /v1/chat/completions request travelling through validation, the    *)
(* local (Ollama) call, the upstream (OpenRouter) call, and either the     *)
(* JSON answer or the streaming relay with its heartbeat timer.            *)
(*                                                                         *)
(* Text is a sequence of one-character strings, bytes are numbers 0..255.  *)
(* A function of the source that can throw is an operator returning        *)
(* [ok |-> TRUE, value |-> v] or [ok |-> FALSE, error |-> e].              *)
(***************************************************************************)
EXTENDS Integers, Sequences, FiniteSets, TLC

\* ------------------------------------------------------------------ bounds
MaxMsgs == 2
MaxChunks == 2
MaxBeats == 1

\* --------------------------------------------------------------- constants
DEEPSEEK_CHAT_MODEL == "deepseek-r1:1.5b"
CLAUDE_MODEL == "anthropic/claude-3.5-sonnet"

ThinkOpen == <<"<", "t", "h", "i", "n", "k", ">">>
ThinkClose == <<"<", "/", "t", "h", "i", "n", "k", ">">>
Whitespace == {" ", "\n", "\t"}

HeartbeatFrame == [hb |-> TRUE, bytes |-> <<>>]

\* ------------------------------------------------------------ input spaces
Roles == {"user", "assistant", "tool"}
Message == [role : Roles, content : {<<"c">>}]

RECURSIVE SeqsUpTo(_, _)
SeqsUpTo(S, n) ==
    IF n = 0 THEN {<<>>}
    ELSE LET shorter == SeqsUpTo(S, n - 1)
         IN shorter \cup {Append(s, x) : s \in {t \in shorter : Len(t) = n - 1}, x \in S}

\* The `messages` field of the inbound body: absent, a non-array, or an array.
MessagesValues ==
    {[kind |-> "absent", items |-> <<>>], [kind |-> "string", items |-> <<>>]}
    \cup {[kind |-> "array", items |-> s] : s \in SeqsUpTo(Message, MaxMsgs)}

StreamValues == {"absent", "false", "true"}
ToolsValues == {"absent", "toolschema"}

\* The inbound Authorization header, a sequence of tokens when present.
AuthValues ==
    {[present |-> FALSE, value |-> <<>>],
     [present |-> TRUE, value |-> <<"Bearer ", "k1">>],
     [present |-> TRUE, value |-> <<"Bearer ">>]}

Requests ==
    {[body |-> [messages |-> m, stream |-> s, tools |-> t, model |-> "gpt-4o"],
      headers |-> [authorization |-> a]] :
        m \in MessagesValues, s \in StreamValues, t \in ToolsValues, a \in AuthValues}

\* Lines of the local endpoint's newline-delimited body.
ObjLine(c, d) == [kind |-> "obj", content |-> c, done |-> d]
BadLine == [kind |-> "bad", content |-> <<>>, done |-> FALSE]
EmptyLine == [kind |-> "empty", content |-> <<>>, done |-> FALSE]

LocalBodies ==
    {<<ObjLine(ThinkOpen \o <<"a">>, FALSE), BadLine, EmptyLine,
       ObjLine(<<"b", " ">>, TRUE), ObjLine(<<"z">>, FALSE)>>,
     <<ObjLine(<<"a">>, TRUE)>>,
     <<>>}

LocalStatuses == {200, 404, 500}
UpstreamStatuses == {200, 401, 503}
Completions == {"completion"}

\* Chunks an upstream stream read can deliver: ASCII 'a' (97) and the two
\* bytes of U+00E9 (195, 169), whole or split across chunks.
Chunks == {<<97>>, <<195, 169>>, <<97, 195>>, <<169>>}

\* ------------------------------------------------------------------ errors
APIError(text, statusCode) ==
    [name |-> "APIError", message |-> [text |-> text, status |-> statusCode],
     statusCode |-> statusCode]
\* An error that is no APIError: it carries no statusCode.
OtherError(text) ==
    [name |-> "Error", message |-> [text |-> text, status |-> 0], statusCode |-> 0]

Return(v) == [ok |-> TRUE, value |-> v]
Throw(e) == [ok |-> FALSE, error |-> e]

\* ---------------------------------------------------------- pure functions
IsArray(v) == v.kind = "array"

validateRequest_NoEmptyCheck(r) ==
    IF ~IsArray(r.body.messages)
    THEN Throw(APIError("Invalid request: messages array is required", 400))
    ELSE Return(r.body)

validateRequest(r) ==
    IF ~IsArray(r.body.messages) \/ Len(r.body.messages.items) = 0
    THEN Throw(APIError("Invalid request: messages array is required", 400))
    ELSE Return(r.body)

\* String.prototype.replace with a string pattern: the first occurrence only.
RECURSIVE ReplaceFirst(_, _)
ReplaceFirst(s, tok) ==
    IF s = <<>> THEN <<>>
    ELSE IF Head(s) = tok THEN Tail(s)
    ELSE <<Head(s)>> \o ReplaceFirst(Tail(s), tok)

getOpenRouterKey_NoCheck(r) ==
    Return(IF r.headers.authorization.present
           THEN ReplaceFirst(r.headers.authorization.value, "Bearer ")
           ELSE <<"undefined">>)

\* The header value taken whole, its 'Bearer ' prefix not removed.
getOpenRouterKey_NoStrip(r) ==
    LET key == IF r.headers.authorization.present
               THEN r.headers.authorization.value
               ELSE <<>>
    IN IF key = <<>>
       THEN Throw(APIError("Missing OpenRouter API key", 401))
       ELSE Return(key)

getOpenRouterKey(r) ==
    LET key == IF r.headers.authorization.present
               THEN ReplaceFirst(r.headers.authorization.value, "Bearer ")
               ELSE <<>>
    IN IF key = <<>>
       THEN Throw(APIError("Missing OpenRouter API key", 401))
       ELSE Return(key)

isToolMessage_First(chatReq) ==
    chatReq.messages.items[1].role = "tool"

\* lastMessage?.role === 'tool'
isToolMessage(chatReq) ==
    LET n == Len(chatReq.messages.items)
    IN n > 0 /\ chatReq.messages.items[n].role = "tool"

prepareOllamaRequest_KeepTools(chatReq) ==
    [messages |-> [kind |-> "array",
                   items |-> [i \in 1..Len(chatReq.messages.items) |->
                       [role |-> IF chatReq.messages.items[i].role = "tool"
                                 THEN "user" ELSE chatReq.messages.items[i].role,
                        content |-> chatReq.messages.items[i].content]]],
     stream |-> chatReq.stream,
     tools |-> chatReq.tools,
     model |-> DEEPSEEK_CHAT_MODEL,
     options |-> [stop |-> <<ThinkClose>>]]

prepareOllamaRequest(chatReq) ==
    [messages |-> [kind |-> "array",
                   items |-> [i \in 1..Len(chatReq.messages.items) |->
                       [role |-> IF chatReq.messages.items[i].role = "tool"
                                 THEN "user" ELSE chatReq.messages.items[i].role,
                        content |-> chatReq.messages.items[i].content]]],
     stream |-> chatReq.stream,
     tools |-> "absent",
     model |-> DEEPSEEK_CHAT_MODEL,
     options |-> [stop |-> <<ThinkClose>>]]

ResponseOk(status) == status \in 200..299

sendOllamaRequest_NoStatusCheck(status) == Return(status)

sendOllamaRequest(status) ==
    IF ~ResponseOk(status)
    THEN Throw(APIError("Ollama request failed: ", status))
    ELSE Return(status)

\* The accumulation loop over the non-empty lines.
RECURSIVE Accumulate(_)
Accumulate(lines) ==
    IF lines = <<>> THEN <<>>
    ELSE LET l == Head(lines)
         IN IF l.kind = "bad" THEN Accumulate(Tail(lines))
            ELSE l.content \o (IF l.done THEN <<>> ELSE Accumulate(Tail(lines)))

IsPrefix(p, s) == Len(p) <= Len(s) /\ SubSeq(s, 1, Len(p)) = p

\* The match anchored on the last <think> instead of the first.
ThinkMatch_Last(s) ==
    LET occ == {i \in 1..Len(s) : IsPrefix(ThinkOpen, SubSeq(s, i, Len(s)))}
        last == CHOOSE i \in occ : \A j \in occ : j <= i
    IN IF occ = {} THEN [matched |-> FALSE, group |-> <<>>]
       ELSE [matched |-> TRUE, group |-> SubSeq(s, last + Len(ThinkOpen), Len(s))]

\* /<think>(.*)/s : the text after the leftmost <think>, or no match.
RECURSIVE ThinkMatch(_)
ThinkMatch(s) ==
    IF Len(s) < Len(ThinkOpen) THEN [matched |-> FALSE, group |-> <<>>]
    ELSE IF IsPrefix(ThinkOpen, s)
         THEN [matched |-> TRUE, group |-> SubSeq(s, Len(ThinkOpen) + 1, Len(s))]
         ELSE ThinkMatch(Tail(s))

RECURSIVE TrimStart(_)
TrimStart(s) ==
    IF s # <<>> /\ Head(s) \in Whitespace THEN TrimStart(Tail(s)) ELSE s

RECURSIVE TrimEnd(_)
TrimEnd(s) ==
    IF s # <<>> /\ s[Len(s)] \in Whitespace
    THEN TrimEnd(SubSeq(s, 1, Len(s) - 1)) ELSE s

Trim(s) == TrimEnd(TrimStart(s))

extractThoughtContent(body) ==
    LET lines == SelectSeq(body, LAMBDA l : l.kind # "empty")
        accumulatedContent == Accumulate(lines)
        thinkMatch == ThinkMatch(accumulatedContent)
    IN IF thinkMatch.matched THEN Trim(thinkMatch.group) \o ThinkClose ELSE <<>>

prepareOpenRouterRequest_AlwaysAppend(chatReq, thoughtContent) ==
    [chatReq EXCEPT !.model = CLAUDE_MODEL,
                    !.messages.items = @ \o <<[role |-> "assistant",
                                               content |-> thoughtContent]>>]

prepareOpenRouterRequest(chatReq, thoughtContent) ==
    [chatReq EXCEPT !.model = CLAUDE_MODEL,
                    !.messages.items =
                        @ \o (IF thoughtContent # <<>>
                              THEN <<[role |-> "assistant", content |-> thoughtContent]>>
                              ELSE <<>>)]

checkOpenRouterStatus(status) ==
    IF ~ResponseOk(status)
    THEN Throw(APIError("OpenRouter request failed: ", status))
    ELSE Return(status)

Truthy_NotFalse(stream) == stream # "false"

\* Truthiness of the body's `stream` field.
Truthy(stream) == stream = "true"

\* TextDecoder('utf-8').decode(value) without {stream: true}: every call
\* starts afresh, an incomplete or stray byte becomes U+FFFD (65533).
RECURSIVE Utf8Decode(_)
Utf8Decode(b) ==
    IF b = <<>> THEN <<>>
    ELSE IF Head(b) < 128 THEN <<Head(b)>> \o Utf8Decode(Tail(b))
    ELSE IF Head(b) \in 194..223 /\ Len(b) >= 2 /\ b[2] \in 128..191
         THEN <<(Head(b) - 192) * 64 + (b[2] - 128)>> \o Utf8Decode(Tail(Tail(b)))
    ELSE <<65533>> \o Utf8Decode(Tail(b))

\* res.write(string): the string leaves as UTF-8.
RECURSIVE Utf8Encode(_)
Utf8Encode(cps) ==
    IF cps = <<>> THEN <<>>
    ELSE LET c == Head(cps)
         IN (IF c < 128 THEN <<c>>
             ELSE IF c < 2048 THEN <<192 + (c \div 64), 128 + (c % 64)>>
             ELSE <<224 + (c \div 4096), 128 + ((c \div 64) % 64), 128 + (c % 64)>>)
            \o Utf8Encode(Tail(cps))

relayChunk(value) == Utf8Encode(Utf8Decode(value))

\* ------------------------------------------------------------ the response
\* express's res: a header can no longer be set once the headers are sent,
\* so res.json on such a response throws ERR_HTTP_HEADERS_SENT.
resJson(r, body) ==
    IF r.headersSent THEN [res |-> r, threw |-> TRUE]
    ELSE [res |-> [r EXCEPT !.contentType = IF @ = "" THEN "application/json" ELSE @,
                            !.headersSent = TRUE,
                            !.ended = TRUE,
                            !.body = Append(@, body)],
          threw |-> FALSE]

resWrite(r) == [r EXCEPT !.headersSent = TRUE]
resEnd(r) == [r EXCEPT !.headersSent = TRUE, !.ended = TRUE]

handleError_Always500(error, r) ==
    resJson([r EXCEPT !.statusCode = 500], [error |-> error.message])

handleError(error, r) ==
    LET statusCode == IF error.name = "APIError" THEN error.statusCode ELSE 500
    IN resJson([r EXCEPT !.statusCode = statusCode], [error |-> error.message])

\* ------------------------------------------------------------------- state
VARIABLES
    req,             \* the inbound request (body and headers), never assigned
    pc,              \* where the handler is suspended
    thoughtContent,  \* the fragment handed to handleOpenRouterRequest
    localSent,       \* requests sent to the local endpoint
    localResp,       \* what the local endpoint answered
    upstreamSent,    \* requests sent upstream, each with its bearer key
    upResp,          \* what the upstream endpoint answered
    res,             \* the caller's response object
    jsonCalls,       \* calls of res.json, the throwing ones included
    wire,            \* calls of res.write, in order
    readLog,         \* chunks reader.read() delivered, in order
    timer,           \* the heartbeat interval
    callerConnected, \* the caller's connection is open
    caught,          \* errors handed to handleError
    escaped          \* errors that left the request handler

vars == <<req, pc, thoughtContent, localSent, localResp, upstreamSent, upResp,
          res, jsonCalls, wire, readLog, timer, callerConnected, caught, escaped>>

\* State of the two other specifications of this module: the line-by-line run
\* of extractThoughtContent, and two requests in flight together.
VARIABLES
    xRaw,       \* rawResponse: the lines of the local endpoint's body
    xLines,     \* the lines the loop has still to visit
    xAcc,       \* accumulatedContent
    xFragment,  \* what extractThoughtContent returns
    xUpstream,  \* the messages prepareOpenRouterRequest builds from it
    xPc,        \* position in extractThoughtContent
    cc          \* the state of each of the concurrent requests

aux == <<xRaw, xLines, xAcc, xFragment, xUpstream, xPc, cc>>

ExtractIdle ==
    /\ xRaw = <<>> /\ xLines = <<>> /\ xAcc = <<>> /\ xFragment = <<>>
    /\ xUpstream = <<>> /\ xPc = "idle"

ConcIdle == cc = <<>>

Init ==
    /\ ExtractIdle
    /\ ConcIdle
    /\ req \in Requests
    /\ pc = "start"
    /\ thoughtContent = <<>>
    /\ localSent = <<>>
    /\ localResp = [fetch |-> "none", status |-> 0, text |-> "none"]
    /\ upstreamSent = <<>>
    /\ upResp = [fetch |-> "none", status |-> 0, json |-> "none"]
    /\ res = [statusCode |-> 200, contentType |-> "", headersSent |-> FALSE,
              ended |-> FALSE, body |-> <<>>]
    /\ jsonCalls = 0
    /\ wire = <<>>
    /\ readLog = <<>>
    /\ timer = [active |-> FALSE, created |-> 0, firings |-> 0]
    /\ callerConnected = TRUE
    /\ caught = <<>>
    /\ escaped = <<>>

\* The handler's catch block: handleError(error, res); what handleError
\* itself throws leaves the async handler as a rejected promise.
Catch(error, r) ==
    LET h == handleError(error, r)
    IN /\ res' = h.res
       /\ jsonCalls' = jsonCalls + 1
       /\ caught' = Append(caught, error)
       /\ escaped' = IF h.threw THEN Append(escaped, "ERR_HTTP_HEADERS_SENT") ELSE escaped
       /\ pc' = "done"

\* handleOpenRouterRequest up to its fetch.
handleOpenRouterRequest(chatReq, thought) ==
    LET k == getOpenRouterKey(req)
    IN IF ~k.ok
       THEN /\ Catch(k.error, res)
            /\ UNCHANGED upstreamSent
       ELSE /\ upstreamSent' = Append(upstreamSent,
                [key |-> k.value, body |-> prepareOpenRouterRequest(chatReq, thought)])
            /\ pc' = "awaitUpstreamFetch"
            /\ UNCHANGED <<res, jsonCalls, caught, escaped>>

\* The handler from its start to its first suspension point.
HandlerStart ==
    /\ pc = "start"
    /\ LET v == validateRequest(req)
       IN IF ~v.ok
          THEN /\ Catch(v.error, res)
               /\ UNCHANGED <<thoughtContent, localSent, upstreamSent>>
          ELSE IF ~isToolMessage(v.value)
          THEN /\ localSent' = Append(localSent, prepareOllamaRequest(v.value))
               /\ pc' = "awaitLocalFetch"
               /\ UNCHANGED <<thoughtContent, upstreamSent, res, jsonCalls, caught, escaped>>
          ELSE /\ thoughtContent' = <<>>
               /\ handleOpenRouterRequest(v.value, <<>>)
               /\ UNCHANGED localSent
    /\ UNCHANGED <<aux, req, localResp, upResp, wire, readLog, timer, callerConnected>>

\* fetch to the local endpoint rejects: the endpoint is unreachable.
LocalFetchReject ==
    /\ pc = "awaitLocalFetch"
    /\ localResp' = [localResp EXCEPT !.fetch = "rejected"]
    /\ Catch(OtherError("fetch failed"), res)
    /\ UNCHANGED <<aux, req, thoughtContent, localSent, upstreamSent, upResp, wire,
                   readLog, timer, callerConnected>>

\* fetch to the local endpoint resolves with a status.
LocalFetchResponse ==
    /\ pc = "awaitLocalFetch"
    /\ \E status \in LocalStatuses :
        /\ localResp' = [localResp EXCEPT !.fetch = "responded", !.status = status]
        /\ LET s == sendOllamaRequest(status)
           IN IF ~s.ok
              THEN Catch(s.error, res)
              ELSE /\ pc' = "awaitLocalText"
                   /\ UNCHANGED <<res, jsonCalls, caught, escaped>>
    /\ UNCHANGED <<aux, req, thoughtContent, localSent, upstreamSent, upResp, wire,
                   readLog, timer, callerConnected>>

\* response.text() of the local response rejects.
LocalTextReject ==
    /\ pc = "awaitLocalText"
    /\ localResp' = [localResp EXCEPT !.text = "rejected"]
    /\ Catch(OtherError("terminated"), res)
    /\ UNCHANGED <<aux, req, thoughtContent, localSent, upstreamSent, upResp, wire,
                   readLog, timer, callerConnected>>

\* response.text() resolves: the fragment is extracted and the handler goes on
\* into handleOpenRouterRequest.
LocalTextResolve ==
    /\ pc = "awaitLocalText"
    /\ \E body \in LocalBodies :
        /\ localResp' = [localResp EXCEPT !.text = "read"]
        /\ thoughtContent' = extractThoughtContent(body)
        /\ handleOpenRouterRequest(req.body, extractThoughtContent(body))
    /\ UNCHANGED <<aux, req, localSent, upResp, wire, readLog, timer, callerConnected>>

\* fetch to the upstream endpoint rejects.
UpstreamFetchReject ==
    /\ pc = "awaitUpstreamFetch"
    /\ upResp' = [upResp EXCEPT !.fetch = "rejected"]
    /\ Catch(OtherError("fetch failed"), res)
    /\ UNCHANGED <<aux, req, thoughtContent, localSent, localResp, upstreamSent, wire,
                   readLog, timer, callerConnected>>

\* handleStreamingResponse up to its first reader.read().
startStreaming ==
    /\ res' = [res EXCEPT !.contentType = "text/event-stream"]
    /\ timer' = [timer EXCEPT !.active = TRUE, !.created = @ + 1]
    /\ pc' = "awaitRead"

\* fetch to the upstream endpoint resolves with a status.
UpstreamFetchResponse ==
    /\ pc = "awaitUpstreamFetch"
    /\ \E status \in UpstreamStatuses :
        /\ upResp' = [upResp EXCEPT !.fetch = "responded", !.status = status]
        /\ LET c == checkOpenRouterStatus(status)
           IN IF ~c.ok
              THEN /\ Catch(c.error, res)
                   /\ UNCHANGED timer
              ELSE IF Truthy(req.body.stream)
              THEN /\ startStreaming
                   /\ UNCHANGED <<jsonCalls, caught, escaped>>
              ELSE /\ pc' = "awaitUpstreamJson"
                   /\ UNCHANGED <<res, timer, jsonCalls, caught, escaped>>
    /\ UNCHANGED <<aux, req, thoughtContent, localSent, localResp, upstreamSent, wire,
                   readLog, callerConnected>>

\* response.json() of the upstream response rejects.
UpstreamJsonReject ==
    /\ pc = "awaitUpstreamJson"
    /\ upResp' = [upResp EXCEPT !.json = "rejected"]
    /\ Catch(OtherError("Unexpected token"), res)
    /\ UNCHANGED <<aux, req, thoughtContent, localSent, localResp, upstreamSent, wire,
                   readLog, timer, callerConnected>>

\* response.json() resolves and res.json forwards the body.
UpstreamJsonResolve ==
    /\ pc = "awaitUpstreamJson"
    /\ \E c \in Completions :
        /\ upResp' = [upResp EXCEPT !.json = "parsed"]
        /\ res' = resJson(res, [completion |-> c]).res
        /\ jsonCalls' = jsonCalls + 1
    /\ pc' = "done"
    /\ UNCHANGED <<aux, req, thoughtContent, localSent, localResp, upstreamSent, wire,
                   readLog, timer, callerConnected, caught, escaped>>

\* The upstream body is UTF-8 text cut into chunks at arbitrary byte positions:
\* a chunk starts with the continuation byte exactly when the chunk before it
\* ended with the lead byte.
UpstreamCanDeliver(log, value) ==
    LET pendingLead == log # <<>> /\ log[Len(log)][Len(log[Len(log)])] = 195
    IN (Head(value) = 169) <=> pendingLead

\* reader.read() resolves with a chunk: it is decoded, written, and the next
\* read is issued.
ReadChunk ==
    /\ pc = "awaitRead"
    /\ Len(readLog) < MaxChunks
    /\ \E value \in Chunks :
        /\ UpstreamCanDeliver(readLog, value)
        /\ readLog' = Append(readLog, value)
        /\ wire' = Append(wire, [hb |-> FALSE, bytes |-> relayChunk(value)])
    /\ res' = resWrite(res)
    /\ UNCHANGED <<aux, req, pc, thoughtContent, localSent, localResp, upstreamSent,
                   upResp, jsonCalls, timer, callerConnected, caught, escaped>>

\* The loop breaks and the relay returns without res.end().
ReadDone_NoEnd ==
    /\ pc = "awaitRead"
    /\ timer' = [timer EXCEPT !.active = FALSE]
    /\ pc' = "done"
    /\ UNCHANGED <<aux, req, thoughtContent, localSent, localResp, upstreamSent, upResp,
                   res, jsonCalls, wire, readLog, callerConnected, caught, escaped>>

\* reader.read() resolves with done: the loop breaks and finally runs.
ReadDone ==
    /\ pc = "awaitRead"
    /\ timer' = [timer EXCEPT !.active = FALSE]
    /\ res' = resEnd(res)
    /\ pc' = "done"
    /\ UNCHANGED <<aux, req, thoughtContent, localSent, localResp, upstreamSent, upResp,
                   jsonCalls, wire, readLog, callerConnected, caught, escaped>>

\* The read error leaves the relay without the finally block's clearInterval.
ReadError_NoClear ==
    /\ pc = "awaitRead"
    /\ Catch(OtherError("terminated"), resEnd(res))
    /\ UNCHANGED <<aux, req, thoughtContent, localSent, localResp, upstreamSent, upResp,
                   wire, readLog, timer, callerConnected>>

\* reader.read() rejects: finally runs, then the error reaches the handler's
\* catch block.
ReadError ==
    /\ pc = "awaitRead"
    /\ timer' = [timer EXCEPT !.active = FALSE]
    /\ Catch(OtherError("terminated"), resEnd(res))
    /\ UNCHANGED <<aux, req, thoughtContent, localSent, localResp, upstreamSent, upResp,
                   wire, readLog, callerConnected>>

\* The interval's callback.
HeartbeatTick ==
    /\ timer.active
    /\ timer.firings < MaxBeats
    /\ timer' = [timer EXCEPT !.firings = @ + 1]
    /\ wire' = Append(wire, HeartbeatFrame)
    /\ res' = resWrite(res)
    /\ UNCHANGED <<aux, req, pc, thoughtContent, localSent, localResp, upstreamSent,
                   upResp, jsonCalls, readLog, callerConnected, caught, escaped>>

\* The caller closes its connection; the program registers no listener for it.
CallerDisconnect ==
    /\ callerConnected
    /\ pc # "done"
    /\ callerConnected' = FALSE
    /\ UNCHANGED <<aux, req, pc, thoughtContent, localSent, localResp, upstreamSent,
                   upResp, res, jsonCalls, wire, readLog, timer, caught, escaped>>

Next ==
    \/ HandlerStart
    \/ LocalFetchReject
    \/ LocalFetchResponse
    \/ LocalTextReject
    \/ LocalTextResolve
    \/ UpstreamFetchReject
    \/ UpstreamFetchResponse
    \/ UpstreamJsonReject
    \/ UpstreamJsonResolve
    \/ ReadChunk
    \/ ReadDone
    \/ ReadError
    \/ HeartbeatTick
    \/ CallerDisconnect

Spec == Init /\ [][Next]_vars

\* Every outbound call eventually returns or fails, and the upstream stream
\* eventually ends or errors; a resumed handler runs on.
Fairness ==
    /\ WF_vars(HandlerStart)
    /\ WF_vars(LocalFetchReject \/ LocalFetchResponse)
    /\ WF_vars(LocalTextReject \/ LocalTextResolve)
    /\ WF_vars(UpstreamFetchReject \/ UpstreamFetchResponse)
    /\ WF_vars(UpstreamJsonReject \/ UpstreamJsonResolve)
    /\ WF_vars(ReadDone \/ ReadError)

SpecFair == Init /\ [][Next]_vars /\ Fairness

\* --------------------------------------- extractThoughtContent, line by line
MaxLines == 3

Pieces ==
    {<<>>, ThinkOpen, ThinkClose, <<"a">>, <<" ">>,
     <<"<", "t", "h", "i">>, <<"n", "k", ">">>}
LineValues == {BadLine, EmptyLine} \cup {ObjLine(c, d) : c \in Pieces, d \in BOOLEAN}

\* The request the fragment is merged into.
ExtractChatReq ==
    [messages |-> [kind |-> "array", items |-> <<[role |-> "user", content |-> <<"c">>]>>],
     stream |-> "false", tools |-> "absent", model |-> "gpt-4o"]

\* The main request, at rest while another specification runs.
MainIdle ==
    /\ req = [body |-> ExtractChatReq,
              headers |-> [authorization |-> [present |-> FALSE, value |-> <<>>]]]
    /\ pc = "done"
    /\ thoughtContent = <<>>
    /\ localSent = <<>>
    /\ localResp = [fetch |-> "none", status |-> 0, text |-> "none"]
    /\ upstreamSent = <<>>
    /\ upResp = [fetch |-> "none", status |-> 0, json |-> "none"]
    /\ res = [statusCode |-> 200, contentType |-> "", headersSent |-> FALSE,
              ended |-> FALSE, body |-> <<>>]
    /\ jsonCalls = 0
    /\ wire = <<>>
    /\ readLog = <<>>
    /\ timer = [active |-> FALSE, created |-> 0, firings |-> 0]
    /\ callerConnected = TRUE
    /\ caught = <<>>
    /\ escaped = <<>>

InitExtract ==
    /\ MainIdle
    /\ ConcIdle
    /\ xRaw \in SeqsUpTo(LineValues, MaxLines)
    /\ xLines = <<>> /\ xAcc = <<>> /\ xFragment = <<>> /\ xUpstream = <<>>
    /\ xPc = "text"

\* response.text() has resolved: split('\\n').filter(Boolean).
ExtractSplit ==
    /\ xPc = "text"
    /\ xLines' = SelectSeq(xRaw, LAMBDA l : l.kind # "empty")
    /\ xPc' = "loop"
    /\ UNCHANGED <<vars, cc, xRaw, xAcc, xFragment, xUpstream>>

\* One turn of the loop that goes on after a done line.
ExtractLine_NoBreak ==
    /\ xPc = "loop"
    /\ xLines # <<>>
    /\ LET l == Head(xLines)
       IN /\ xAcc' = IF l.kind = "bad" THEN xAcc ELSE xAcc \o l.content
          /\ xLines' = Tail(xLines)
          /\ xPc' = "loop"
    /\ UNCHANGED <<vars, cc, xRaw, xFragment, xUpstream>>

\* One turn of the for loop: parse the line, add its content, break on done;
\* a line that does not parse is logged and skipped.
ExtractLine ==
    /\ xPc = "loop"
    /\ xLines # <<>>
    /\ LET l == Head(xLines)
       IN IF l.kind = "bad"
          THEN /\ xAcc' = xAcc
               /\ xLines' = Tail(xLines)
               /\ xPc' = "loop"
          ELSE /\ xAcc' = xAcc \o l.content
               /\ xLines' = Tail(xLines)
               /\ xPc' = IF l.done THEN "match" ELSE "loop"
    /\ UNCHANGED <<vars, cc, xRaw, xFragment, xUpstream>>

\* The loop runs out of lines.
ExtractLoopEnd ==
    /\ xPc = "loop"
    /\ xLines = <<>>
    /\ xPc' = "match"
    /\ UNCHANGED <<vars, cc, xRaw, xLines, xAcc, xFragment, xUpstream>>

\* The match returned without the closing tag appended.
ExtractMatch_NoClose ==
    /\ xPc = "match"
    /\ LET thinkMatch == ThinkMatch(xAcc)
       IN xFragment' = IF thinkMatch.matched THEN Trim(thinkMatch.group) ELSE <<>>
    /\ xPc' = "return"
    /\ UNCHANGED <<vars, cc, xRaw, xLines, xAcc, xUpstream>>

\* The regex match and the returned fragment.
ExtractMatch ==
    /\ xPc = "match"
    /\ LET thinkMatch == ThinkMatch(xAcc)
       IN xFragment' = IF thinkMatch.matched
                       THEN Trim(thinkMatch.group) \o ThinkClose ELSE <<>>
    /\ xPc' = "return"
    /\ UNCHANGED <<vars, cc, xRaw, xLines, xAcc, xUpstream>>

\* The fragment reaches prepareOpenRouterRequest.
ExtractMerge ==
    /\ xPc = "return"
    /\ xUpstream' = prepareOpenRouterRequest(ExtractChatReq, xFragment).messages.items
    /\ xPc' = "sent"
    /\ UNCHANGED <<vars, cc, xRaw, xLines, xAcc, xFragment>>

NextExtract ==
    \/ ExtractSplit
    \/ ExtractLine
    \/ ExtractLoopEnd
    \/ ExtractMatch
    \/ ExtractMerge

xvars == <<xRaw, xLines, xAcc, xFragment, xUpstream, xPc>>

SpecExtract == InitExtract /\ [][NextExtract]_xvars

\* ------------------------------------------------ two requests in flight
\* Every request runs the same handler on its own req, res, reader and timer;
\* the handler's suspension points are the steps at which requests interleave.
MaxConcChunks == 1
MaxConcBeats == 1

ReqIds == {1, 2}

UserTurn == <<[role |-> "user", content |-> <<"c">>]>>

ConcRequest(stream, auth) ==
    [body |-> [messages |-> [kind |-> "array", items |-> UserTurn],
               stream |-> stream, tools |-> "absent", model |-> "gpt-4o"],
     headers |-> [authorization |-> auth]]

Token1 == [present |-> TRUE, value |-> <<"Bearer ", "k1">>]
\* A token that itself contains the text 'Bearer '.
Token2 == [present |-> TRUE, value |-> <<"Bearer ", "k2", "Bearer ", "x">>]
NoHeader == [present |-> FALSE, value |-> <<>>]

ConcInputs ==
    {<<ConcRequest("true", Token1), r>> :
        r \in {ConcRequest("true", Token2), ConcRequest("false", Token2),
               ConcRequest("true", NoHeader)}}

ConcBodies ==
    {<<ObjLine(ThinkOpen \o <<"a">>, FALSE), BadLine, ObjLine(<<"b", " ">>, TRUE)>>,
     <<ObjLine(ThinkOpen \o <<"b">>, TRUE)>>}
ConcFetchOutcomes ==
    {[rejected |-> TRUE, status |-> 0], [rejected |-> FALSE, status |-> 200],
     [rejected |-> FALSE, status |-> 503]}
ConcJsonOutcomes == {"rejected", "completion"}
ConcChunks == {<<97>>, <<195, 169>>}

\* sendOllamaRequest's request headers.
OllamaHeaders == [contentType |-> "application/json"]

NoMessage == [text |-> "", status |-> 0]
LogEntry(tag, text, message) == [tag |-> tag, text |-> text, message |-> message]
EnvEntry(step, status, lines, bytes) ==
    [step |-> step, status |-> status, lines |-> lines, bytes |-> bytes]

NewRequest(r) ==
    [req |-> r, pc |-> "start", thoughtContent |-> <<>>, localSent |-> <<>>,
     localBody |-> <<>>, upstreamSent |-> <<>>,
     res |-> [statusCode |-> 200, contentType |-> "", headersSent |-> FALSE,
              ended |-> FALSE, body |-> <<>>],
     wire |-> <<>>, readLog |-> <<>>,
     timer |-> [active |-> FALSE, created |-> 0, firings |-> 0],
     callerConnected |-> TRUE, caught |-> <<>>, escaped |-> <<>>,
     log |-> <<>>, env |-> <<>>]

InitConc ==
    /\ MainIdle
    /\ ExtractIdle
    /\ \E in \in ConcInputs : cc = <<NewRequest(in[1]), NewRequest(in[2])>>

\* The handler's catch block on the request's own res.
catchIn(s, error) ==
    LET h == handleError(error, s.res)
    IN [s EXCEPT !.res = h.res,
                 !.caught = Append(@, error),
                 !.escaped = IF h.threw THEN Append(@, "ERR_HTTP_HEADERS_SENT") ELSE @,
                 !.log = Append(@, LogEntry("Error:", <<>>, error.message)),
                 !.pc = "done"]

\* Lines 54-57 and handleOpenRouterRequest up to its fetch.
openRouterIn(s, thought) ==
    LET s1 == [s EXCEPT !.thoughtContent = thought,
                        !.log = @ \o <<LogEntry("thoughtContent:", thought, NoMessage),
                                       LogEntry("contacting openrouter", <<>>, NoMessage)>>]
        k == getOpenRouterKey(s1.req)
    IN IF ~k.ok THEN catchIn(s1, k.error)
       ELSE [s1 EXCEPT !.upstreamSent = Append(@,
                           [key |-> k.value,
                            body |-> prepareOpenRouterRequest(s1.req.body, thought)]),
                       !.pc = "awaitUpstreamFetch"]

\* The console.error of each line the loop fails to parse.
RECURSIVE parseErrors(_)
parseErrors(lines) ==
    IF lines = <<>> THEN <<>>
    ELSE LET l == Head(lines)
         IN IF l.kind = "bad"
            THEN <<LogEntry("Error parsing Ollama response line:", <<>>, NoMessage)>>
                 \o parseErrors(Tail(lines))
            ELSE IF l.kind = "obj" /\ l.done THEN <<>>
            ELSE parseErrors(Tail(lines))

ConcStart(i) ==
    /\ cc[i].pc = "start"
    /\ LET s == [cc[i] EXCEPT !.log = Append(@, LogEntry("received request", <<>>, NoMessage))]
           v == validateRequest(s.req)
       IN cc' = [cc EXCEPT ![i] =
             IF ~v.ok THEN catchIn(s, v.error)
             ELSE IF ~isToolMessage(v.value)
             THEN [s EXCEPT !.log = Append(@, LogEntry("contacting deepseek", <<>>, NoMessage)),
                            !.localSent = Append(@, [headers |-> OllamaHeaders,
                                                     body |-> prepareOllamaRequest(v.value)]),
                            !.pc = "awaitLocalFetch"]
             ELSE openRouterIn(s, <<>>)]
    /\ UNCHANGED <<vars, xvars>>

ConcLocalFetch(i) ==
    /\ cc[i].pc = "awaitLocalFetch"
    /\ \E o \in ConcFetchOutcomes :
        LET s == [cc[i] EXCEPT !.env = Append(@, EnvEntry("localFetch", o.status, <<>>, <<>>))]
            sent == sendOllamaRequest(o.status)
        IN cc' = [cc EXCEPT ![i] =
              IF o.rejected THEN catchIn(s, OtherError("fetch failed"))
              ELSE IF ~sent.ok THEN catchIn(s, sent.error)
              ELSE [s EXCEPT !.pc = "awaitLocalText"]]
    /\ UNCHANGED <<vars, xvars>>

ConcLocalText(i) ==
    /\ cc[i].pc = "awaitLocalText"
    /\ \E body \in ConcBodies :
        LET s == [cc[i] EXCEPT !.env = Append(@, EnvEntry("localText", 0, body, <<>>)),
                               !.localBody = Append(@, body),
                               !.log = @ \o parseErrors(body)]
        IN cc' = [cc EXCEPT ![i] = openRouterIn(s, extractThoughtContent(body))]
    /\ UNCHANGED <<vars, xvars>>

ConcUpstreamFetch(i) ==
    /\ cc[i].pc = "awaitUpstreamFetch"
    /\ \E o \in ConcFetchOutcomes :
        LET s == [cc[i] EXCEPT !.env = Append(@, EnvEntry("upstreamFetch", o.status, <<>>, <<>>))]
            c == checkOpenRouterStatus(o.status)
        IN cc' = [cc EXCEPT ![i] =
              IF o.rejected THEN catchIn(s, OtherError("fetch failed"))
              ELSE IF ~c.ok THEN catchIn(s, c.error)
              ELSE IF Truthy(s.req.body.stream)
              THEN [s EXCEPT !.res.contentType = "text/event-stream",
                             !.timer.active = TRUE,
                             !.timer.created = @ + 1,
                             !.pc = "awaitRead"]
              ELSE [s EXCEPT !.pc = "awaitUpstreamJson"]]
    /\ UNCHANGED <<vars, xvars>>

ConcUpstreamJson(i) ==
    /\ cc[i].pc = "awaitUpstreamJson"
    /\ \E o \in ConcJsonOutcomes :
        LET step == IF o = "rejected" THEN "upstreamJsonRejected" ELSE "upstreamJson"
            s == [cc[i] EXCEPT !.env = Append(@, EnvEntry(step, 0, <<>>, <<>>))]
        IN cc' = [cc EXCEPT ![i] =
              IF o = "rejected" THEN catchIn(s, OtherError("Unexpected token"))
              ELSE [s EXCEPT !.res = resJson(s.res, [completion |-> o]).res,
                             !.pc = "done"]]
    /\ UNCHANGED <<vars, xvars>>

ConcReadChunk(i) ==
    /\ cc[i].pc = "awaitRead"
    /\ Len(cc[i].readLog) < MaxConcChunks
    /\ \E value \in ConcChunks :
        cc' = [cc EXCEPT ![i].env = Append(@, EnvEntry("read", 0, <<>>, value)),
                         ![i].readLog = Append(@, value),
                         ![i].wire = Append(@, [hb |-> FALSE, bytes |-> relayChunk(value)]),
                         ![i].res = resWrite(@)]
    /\ UNCHANGED <<vars, xvars>>

\* The finally block clears a timer handle that all requests share.
ConcReadDone_SharedTimer(i) ==
    /\ cc[i].pc = "awaitRead"
    /\ cc' = [j \in DOMAIN cc |->
                IF j = i
                THEN [cc[i] EXCEPT !.env = Append(@, EnvEntry("readDone", 0, <<>>, <<>>)),
                                   !.timer.active = FALSE,
                                   !.res = resEnd(@),
                                   !.pc = "done"]
                ELSE [cc[j] EXCEPT !.timer.active = FALSE]]
    /\ UNCHANGED <<vars, xvars>>

ConcReadDone(i) ==
    /\ cc[i].pc = "awaitRead"
    /\ cc' = [cc EXCEPT ![i].env = Append(@, EnvEntry("readDone", 0, <<>>, <<>>)),
                        ![i].timer.active = FALSE,
                        ![i].res = resEnd(@),
                        ![i].pc = "done"]
    /\ UNCHANGED <<vars, xvars>>

ConcReadError(i) ==
    /\ cc[i].pc = "awaitRead"
    /\ LET s == [cc[i] EXCEPT !.env = Append(@, EnvEntry("readError", 0, <<>>, <<>>)),
                              !.timer.active = FALSE,
                              !.res = resEnd(@)]
       IN cc' = [cc EXCEPT ![i] = catchIn(s, OtherError("terminated"))]
    /\ UNCHANGED <<vars, xvars>>

ConcHeartbeat(i) ==
    /\ cc[i].timer.active
    /\ cc[i].timer.firings < MaxConcBeats
    /\ cc' = [cc EXCEPT ![i].timer.firings = @ + 1,
                        ![i].wire = Append(@, HeartbeatFrame),
                        ![i].res = resWrite(@)]
    /\ UNCHANGED <<vars, xvars>>

ConcDisconnect(i) ==
    /\ cc[i].callerConnected
    /\ cc[i].pc # "done"
    /\ cc' = [cc EXCEPT ![i].callerConnected = FALSE]
    /\ UNCHANGED <<vars, xvars>>

NextConc ==
    \/ \E i \in ReqIds : ConcStart(i)
    \/ \E i \in ReqIds : ConcLocalFetch(i)
    \/ \E i \in ReqIds : ConcLocalText(i)
    \/ \E i \in ReqIds : ConcUpstreamFetch(i)
    \/ \E i \in ReqIds : ConcUpstreamJson(i)
    \/ \E i \in ReqIds : ConcReadChunk(i)
    \/ \E i \in ReqIds : ConcReadDone(i)
    \/ \E i \in ReqIds : ConcReadError(i)
    \/ \E i \in ReqIds : ConcHeartbeat(i)
    \/ \E i \in ReqIds : ConcDisconnect(i)

SpecConc == InitConc /\ [][NextConc]_cc

\* ================================================================= claims
\* Facts about the inbound request and the endpoints' answers, stated
\* without the program's own functions.
Items == req.body.messages.items
MessagesOk == req.body.messages.kind = "array" /\ Len(Items) >= 1
LastIsTool == MessagesOk /\ Items[Len(Items)].role = "tool"
MissingAuth == ~req.headers.authorization.present
NoToken == MissingAuth \/ req.headers.authorization.value \in {<<>>, <<"Bearer ">>}
StreamOff == req.body.stream \in {"absent", "false"}
Is2xx(n) == n >= 200 /\ n <= 299
LocalFailed ==
    \/ localResp.fetch = "rejected"
    \/ localResp.fetch = "responded" /\ ~Is2xx(localResp.status)
UpstreamRefused == upResp.fetch = "responded" /\ ~Is2xx(upResp.status)
Streaming == res.contentType = "text/event-stream"
ErrorBody(text, status) == <<[error |-> [text |-> text, status |-> status]]>>

\* C1 (as claimed): a request with a last message and no Authorization
\* header ends with status 401, and neither the local nor the upstream
\* endpoint is called for it, whatever the last message's role.
C1_Original ==
    (MissingAuth /\ MessagesOk) =>
        /\ localSent = <<>>
        /\ upstreamSent = <<>>
        /\ (pc = "done" => res.statusCode = 401)

\* C1 (amended): a request with a last message and no Authorization header
\* never reaches the upstream endpoint; once its local stage is over (skipped
\* for a tool turn, otherwise the local endpoint called and its answer read)
\* it ends with status 401 and the missing-key error body. When the last
\* message is no tool message the local endpoint is called before the 401.
C1_Amended ==
    (MissingAuth /\ MessagesOk) =>
        /\ upstreamSent = <<>>
        /\ upResp.fetch = "none"
        /\ (pc = "done" /\ (LastIsTool \/ localResp.text = "read"))
              => /\ res.statusCode = 401
                 /\ res.body = ErrorBody("Missing OpenRouter API key", 401)
                 /\ Len(localSent) = (IF LastIsTool THEN 0 ELSE 1)
        /\ (pc # "start" /\ ~LastIsTool) => Len(localSent) = 1

C1_Witness ==
    /\ MissingAuth /\ pc = "done" /\ res.statusCode = 401
    /\ Len(localSent) = 1 /\ localResp.text = "read"

\* C2 (as claimed): once the caller has disconnected, no further res.write
\* happens and the heartbeat timer fires no more.
C2_Claim ==
    [][~callerConnected => (wire' = wire /\ timer'.firings = timer.firings)]_vars

\* C3 (as claimed): once the event-stream headers are set, the response's
\* status code is not changed and no JSON body is written or attempted on it.
C3_Claim ==
    Streaming => (res.statusCode = 200 /\ jsonCalls = 0 /\ res.body = <<>>)

\* C4 (as claimed): handleError never raises: no error leaves the request
\* handler, and an error is handed to handleError at most once.
C4_Claim ==
    escaped = <<>> /\ Len(caught) <= 1

RECURSIVE Flatten(_)
Flatten(chunks) ==
    IF chunks = <<>> THEN <<>> ELSE Head(chunks) \o Flatten(Tail(chunks))

RECURSIVE DataBytes(_)
DataBytes(frames) ==
    IF frames = <<>> THEN <<>>
    ELSE (IF Head(frames).hb THEN <<>> ELSE Head(frames).bytes) \o DataBytes(Tail(frames))

\* C5 (as claimed): the bytes written to the caller, heartbeat frames removed,
\* are the bytes read from upstream, in order, however they were chunked.
C5_Claim ==
    DataBytes(wire) = Flatten(readLog)

\* C6: the validator accepts exactly the requests whose `messages` is a
\* non-empty array; every other request ends with status 400, the body
\* {error: ...}, and no call to the local or the upstream endpoint.
C6_Validator ==
    pc # "start" =>
        IF MessagesOk
        THEN \A i \in 1..Len(caught) :
                caught[i].message.text # "Invalid request: messages array is required"
        ELSE /\ pc = "done"
             /\ res.statusCode = 400
             /\ res.body = ErrorBody("Invalid request: messages array is required", 400)
             /\ res.contentType = "application/json"
             /\ localSent = <<>>
             /\ upstreamSent = <<>>

C6_Witness ==
    /\ req.body.messages.kind = "array" /\ Items = <<>>
    /\ pc = "done" /\ res.statusCode = 400

\* C7: when the last message has role tool, the local endpoint is never
\* called, the fragment is empty, and the message list sent upstream is the
\* original one.
C7_ToolTurn ==
    LastIsTool =>
        /\ localSent = <<>>
        /\ localResp.fetch = "none"
        /\ thoughtContent = <<>>
        /\ \A i \in 1..Len(upstreamSent) :
              upstreamSent[i].body.messages = req.body.messages

C7_Witness ==
    LastIsTool /\ Len(Items) = 2 /\ Items[1].role = "user" /\ Len(upstreamSent) = 1

\* C8: the upstream call is issued only after the local response has been
\* read in full; when the local endpoint is unreachable or answers a
\* non-success status, the upstream endpoint is never called and the error is
\* handed to handleError once.
C8_LocalFirst ==
    /\ (upstreamSent # <<>> /\ MessagesOk /\ ~LastIsTool)
          => /\ Len(localSent) = 1
             /\ localResp.fetch = "responded"
             /\ Is2xx(localResp.status)
             /\ localResp.text = "read"
    /\ Len(upstreamSent) <= 1
    /\ LocalFailed =>
          /\ upstreamSent = <<>>
          /\ upResp.fetch = "none"
          /\ pc = "done"
          /\ Len(caught) = 1
          /\ escaped = <<>>
          /\ res.statusCode =
                (IF localResp.fetch = "rejected" THEN 500 ELSE localResp.status)

C8_Witness ==
    /\ Len(localSent) = 1 /\ localResp.text = "read" /\ Len(upstreamSent) = 1
    /\ upResp.fetch = "responded"

\* The status the failure's cause calls for.
ExpectedStatus ==
    IF ~MessagesOk THEN 400
    ELSE IF localResp.fetch = "rejected" \/ localResp.text = "rejected" THEN 500
    ELSE IF LocalFailed THEN localResp.status
    ELSE IF NoToken THEN 401
    ELSE IF upResp.fetch = "rejected" THEN 500
    ELSE IF UpstreamRefused THEN upResp.status
    ELSE 500

\* C9: a failure before the stream has started yields the JSON body
\* {error: message} with the error's own status code (400, 401, the local or
\* upstream endpoint's status) or 500; a refused upstream call never starts
\* the event stream.
C9_ErrorMapping ==
    /\ (caught # <<>> /\ ~Streaming)
          => /\ res.body = <<[error |-> caught[1].message]>>
             /\ res.contentType = "application/json"
             /\ res.ended
             /\ res.statusCode = ExpectedStatus
    /\ UpstreamRefused
          => /\ ~Streaming
             /\ wire = <<>>
             /\ timer.created = 0
             /\ res.statusCode = upResp.status

C9_Witness ==
    pc = "done" /\ UpstreamRefused /\ upResp.status = 503 /\ res.statusCode = 503

\* C10: a request whose stream flag is absent or false never gets an event
\* stream, a heartbeat timer or a written frame, and when its pipeline
\* succeeds it gets exactly one JSON body.
C10_NonStreaming ==
    StreamOff =>
        /\ ~Streaming
        /\ pc # "awaitRead"
        /\ timer.created = 0 /\ ~timer.active
        /\ wire = <<>>
        /\ (pc = "done" /\ caught = <<>>)
              => /\ jsonCalls = 1
                 /\ \E c \in Completions : res.body = <<[completion |-> c]>>
                 /\ res.contentType = "application/json"
                 /\ res.statusCode = 200

C10_Witness ==
    /\ req.body.stream = "absent" /\ pc = "done" /\ caught = <<>>
    /\ Len(res.body) = 1

\* C11: the heartbeat timer is active only while the relay awaits a read; on
\* stream end and on a read error it is cancelled and the response is ended,
\* and nothing is written once the response has ended.
C11_TimerScoped ==
    /\ [](/\ timer.created <= 1
          /\ timer.active => (pc = "awaitRead" /\ ~res.ended)
          /\ pc = "done" => ~timer.active
          /\ (pc = "done" /\ timer.created = 1) => res.ended)
    /\ [][res.ended => wire' = wire]_vars

C11_Witness ==
    /\ pc = "done" /\ caught # <<>> /\ timer.created = 1 /\ timer.firings = 1
    /\ ~timer.active /\ res.ended

\* C12: the upstream request has the original request's fields with only the
\* model replaced, and its messages are the original ones, in order, followed
\* by one assistant message holding the fragment when the fragment is
\* non-empty and by nothing otherwise.
C12_UpstreamRequest ==
    \A i \in 1..Len(upstreamSent) :
        LET b == upstreamSent[i].body
        IN /\ DOMAIN b = DOMAIN req.body
           /\ \A f \in DOMAIN b \ {"model", "messages"} : b[f] = req.body[f]
           /\ b.model = "anthropic/claude-3.5-sonnet"
           /\ b.messages.kind = "array"
           /\ SubSeq(b.messages.items, 1, Len(Items)) = Items
           /\ IF thoughtContent = <<>>
              THEN Len(b.messages.items) = Len(Items)
              ELSE /\ Len(b.messages.items) = Len(Items) + 1
                   /\ b.messages.items[Len(Items) + 1] =
                         [role |-> "assistant", content |-> thoughtContent]

C12_Witness ==
    /\ Len(upstreamSent) = 1 /\ thoughtContent # <<>>
    /\ Len(upstreamSent[1].body.messages.items) = 3
    /\ req.body.tools = "toolschema" /\ req.body.stream = "true"

\* C15: the request sent to the local endpoint has no tools, every tool
\* role turned into user, the local model name and the </think> stop
\* sequence; the received request is never changed, and the request sent
\* upstream afterwards still has the original tools, roles and contents.
C15_NoMutation ==
    /\ [](/\ \A i \in 1..Len(localSent) :
                LET l == localSent[i]
                IN /\ l.tools = "absent"
                   /\ l.model = "deepseek-r1:1.5b"
                   /\ l.options.stop = <<ThinkClose>>
                   /\ Len(l.messages.items) = Len(Items)
                   /\ \A k \in 1..Len(Items) :
                         /\ l.messages.items[k].content = Items[k].content
                         /\ l.messages.items[k].role =
                               (IF Items[k].role = "tool" THEN "user" ELSE Items[k].role)
          /\ \A i \in 1..Len(upstreamSent) :
                /\ upstreamSent[i].body.tools = req.body.tools
                /\ \A k \in 1..Len(Items) :
                      upstreamSent[i].body.messages.items[k] = Items[k])
    /\ [][req' = req]_vars

C15_Witness ==
    /\ Len(localSent) = 1 /\ Len(upstreamSent) = 1
    /\ Items[1].role = "tool" /\ req.body.tools = "toolschema"

\* ------------------------------------ facts about the local endpoint's body
\* The parseable line that ends the accumulation: the first done one, or the
\* last line.
LastCounted(body) ==
    LET dones == {i \in 1..Len(body) : body[i].kind = "obj" /\ body[i].done}
    IN IF dones = {} THEN Len(body) ELSE CHOOSE i \in dones : \A j \in dones : i <= j

ExpectedAccumulated(body) ==
    Flatten([i \in 1..LastCounted(body) |->
                IF body[i].kind = "obj" THEN body[i].content ELSE <<>>])

\* Positions at which <think> occurs in a text.
Occurrences(s) ==
    {i \in 1..Len(s) : i + 6 <= Len(s) /\
        <<s[i], s[i+1], s[i+2], s[i+3], s[i+4], s[i+5], s[i+6]>> = ThinkOpen}

FirstOccurrence(s) == CHOOSE i \in Occurrences(s) : \A j \in Occurrences(s) : i <= j

AfterFirstTag(s) == SubSeq(s, FirstOccurrence(s) + 7, Len(s))

Trimmed(s) ==
    LET solid == {k \in 1..Len(s) : s[k] \notin {" ", "\n", "\t"}}
    IN IF solid = {} THEN <<>>
       ELSE SubSeq(s, CHOOSE k \in solid : \A j \in solid : k <= j,
                      CHOOSE k \in solid : \A j \in solid : j <= k)

ExpectedFragment(s) ==
    IF Occurrences(s) = {} THEN <<>>
    ELSE Trimmed(AfterFirstTag(s)) \o <<"<", "/", "t", "h", "i", "n", "k", ">">>

\* C13: the accumulated text is the concatenation, in order, of the contents
\* of the parseable lines up to and including the first done one; later lines
\* and lines that do not parse add nothing.
C13_Accumulation ==
    /\ xPc \in {"match", "return", "sent"} => xAcc = ExpectedAccumulated(xRaw)
    /\ xPc \in {"match", "return", "sent"} =>
          xAcc = Accumulate(SelectSeq(xRaw, LAMBDA l : l.kind # "empty"))

C13_Witness ==
    /\ xPc = "match" /\ Len(xRaw) = 3
    /\ xRaw[1].kind = "bad"
    /\ xRaw[2].kind = "obj" /\ xRaw[2].done /\ xRaw[2].content = <<"a">>
    /\ xRaw[3].kind = "obj" /\ xRaw[3].content = <<"a">>
    /\ xAcc = <<"a">>

\* C14: with <think> in the accumulated text the fragment is what follows its
\* first occurrence, to the end of the text, trimmed, with </think> appended;
\* without it the fragment is empty.
C14_Fragment ==
    xPc \in {"return", "sent"} =>
        /\ xFragment = ExpectedFragment(xAcc)
        /\ xFragment = extractThoughtContent(xRaw)

C14_Witness ==
    /\ xPc = "return"
    /\ Cardinality(Occurrences(xAcc)) = 2
    /\ Len(AfterFirstTag(xAcc)) > Len(Trimmed(AfterFirstTag(xAcc)))

OnlyAssistantAppended ==
    /\ Len(xUpstream) = Len(ExtractChatReq.messages.items) + 1
    /\ xUpstream[Len(xUpstream)].role = "assistant"

\* C19: once the local model has answered, an assistant message is appended
\* upstream exactly when the accumulated text contains <think>; its content
\* ends with </think>, and is </think> alone when only whitespace follows the
\* opening tag.
C19_AppendedIff ==
    xPc = "sent" =>
        /\ OnlyAssistantAppended <=> Occurrences(xAcc) # {}
        /\ Occurrences(xAcc) = {} => xUpstream = ExtractChatReq.messages.items
        /\ Occurrences(xAcc) # {} =>
              LET content == xUpstream[Len(xUpstream)].content
              IN /\ Len(content) >= 8
                 /\ SubSeq(content, Len(content) - 7, Len(content)) = ThinkClose
                 /\ SubSeq(xUpstream, 1, Len(xUpstream) - 1) = ExtractChatReq.messages.items
                 /\ Trimmed(AfterFirstTag(xAcc)) = <<>> => content = ThinkClose

C19_Witness ==
    /\ xPc = "sent" /\ Occurrences(xAcc) # {}
    /\ AfterFirstTag(xAcc) = <<" ">>
    /\ xUpstream[Len(xUpstream)].content = ThinkClose

\* The response was finished in exactly one way: one JSON body, or one close
\* of the event stream.
FinishedOnce ==
    /\ res.ended
    /\ \/ ~Streaming /\ Len(res.body) = 1 /\ jsonCalls = 1 /\ wire = <<>>
       \/ Streaming /\ res.body = <<>> /\ timer.created = 1

\* C18: when every outbound call returns or fails and the upstream stream ends
\* or errors, the request reaches its final state, and in it the response has
\* been finished exactly once and no heartbeat timer is active.
C18_Completes ==
    /\ <>(pc = "done")
    /\ [](pc = "done" => (FinishedOnce /\ ~timer.active))

C18_Witness ==
    /\ pc = "done" /\ ~callerConnected /\ Streaming /\ res.ended /\ ~timer.active
    /\ caught = <<>> /\ Len(wire) >= 2

\* ---- C16 ----
\* Requests in flight at the same time do not interfere: every upstream request
\* of a request carries that request's own messages and the fragment of that
\* request's own local response, every data frame on a caller's wire is a
\* chunk read from that request's own upstream body, in order, with one
\* heartbeat frame per firing of its own timer, and a step of one request
\* (its failure, its hang, its caller going away) changes nothing of another.
\* The chunks of ConcChunks end on character boundaries, so a relayed chunk
\* is the chunk itself.
OwnItems(i) == cc[i].req.body.messages.items

OwnFragment(i) ==
    IF cc[i].localBody = <<>> THEN <<>>
    ELSE ExpectedFragment(ExpectedAccumulated(cc[i].localBody[1]))

OwnMessages(i) ==
    IF OwnFragment(i) = <<>> THEN OwnItems(i)
    ELSE Append(OwnItems(i), [role |-> "assistant", content |-> OwnFragment(i)])

IsData(f) == ~f.hb
IsBeat(f) == f.hb

OwnFrames(i) ==
    /\ Len(SelectSeq(cc[i].wire, IsData)) = Len(cc[i].readLog)
    /\ \A k \in 1..Len(cc[i].readLog) :
         SelectSeq(cc[i].wire, IsData)[k].bytes = cc[i].readLog[k]
    /\ Len(SelectSeq(cc[i].wire, IsBeat)) = cc[i].timer.firings

C16_Isolated ==
    /\ [](\A i \in DOMAIN cc :
            /\ \A k \in 1..Len(cc[i].upstreamSent) :
                 cc[i].upstreamSent[k].body.messages.items = OwnMessages(i)
            /\ OwnFrames(i))
    /\ [][\A i \in DOMAIN cc : \A j \in DOMAIN cc :
            (i # j /\ cc'[i] # cc[i]) => cc'[j] = cc[j]]_cc

\* One request has failed after its caller went away while the other, holding
\* a different fragment, streamed to its end.
C16_Witness ==
    /\ Len(cc) = 2
    /\ cc[1].pc = "done" /\ cc[1].caught # <<>> /\ ~cc[1].callerConnected
    /\ cc[2].pc = "done" /\ cc[2].caught = <<>> /\ cc[2].res.ended
    /\ Len(cc[1].upstreamSent) = 1 /\ Len(cc[2].upstreamSent) = 1
    /\ cc[1].thoughtContent # <<>> /\ cc[2].thoughtContent # <<>>
    /\ cc[1].thoughtContent # cc[2].thoughtContent
    /\ cc[2].readLog # <<>> /\ cc[2].timer.firings > 0

\* ---- C17 ----
Header(i) == cc[i].req.headers.authorization

HasBearer(i) ==
    Header(i).present /\ Header(i).value # <<>> /\ Header(i).value[1] = "Bearer "

CarriesToken(i) == HasBearer(i) /\ Tail(Header(i).value) # <<>>

\* The upstream bearer token is what follows the header's 'Bearer ' prefix.
TokenVerbatim ==
    \A i \in DOMAIN cc : \A k \in 1..Len(cc[i].upstreamSent) :
        HasBearer(i) => cc[i].upstreamSent[k].key = Tail(Header(i).value)

\* The local request carries only its Content-Type header, and two requests
\* with the same body send the same local request.
LocalBlind ==
    \A i \in DOMAIN cc :
      /\ \A k \in 1..Len(cc[i].localSent) :
           cc[i].localSent[k].headers = [contentType |-> "application/json"]
      /\ \A j \in DOMAIN cc :
           (/\ cc[i].req.body = cc[j].req.body
            /\ Len(cc[i].localSent) = Len(cc[j].localSent))
             => cc[i].localSent = cc[j].localSent

Agree(a, b) ==
    \/ Len(a) <= Len(b) /\ SubSeq(b, 1, Len(a)) = a
    \/ Len(b) <= Len(a) /\ SubSeq(a, 1, Len(b)) = b

\* The two models gave both requests the same answers as far as both asked.
SameAnswers(i, j) == Agree(cc[i].env, cc[j].env)

\* C17 (as claimed): the upstream bearer token is the header's token verbatim,
\* the local request is the same for two requests that differ only in their
\* Authorization header, and so is everything logged for them once they stand
\* at the same point of the handler.
C17_Original ==
    /\ TokenVerbatim
    /\ LocalBlind
    /\ \A i \in DOMAIN cc : \A j \in DOMAIN cc :
         (/\ cc[i].req.body = cc[j].req.body
          /\ SameAnswers(i, j) /\ cc[i].pc = cc[j].pc)
           => cc[i].log = cc[j].log

\* C17 (amended): the upstream bearer token is the header's token verbatim,
\* the local request is the same for two requests that differ only in their
\* Authorization header, and two such requests that BOTH carry a token, were
\* given the same answers by the two models and stand at the same point of the
\* handler have logged the same entries. A request without a token logs the
\* missing-key error that a request with a token does not.
C17_Amended ==
    /\ TokenVerbatim
    /\ LocalBlind
    /\ \A i \in DOMAIN cc : \A j \in DOMAIN cc :
         (/\ cc[i].req.body = cc[j].req.body
          /\ CarriesToken(i) /\ CarriesToken(j)
          /\ SameAnswers(i, j) /\ cc[i].pc = cc[j].pc)
           => cc[i].log = cc[j].log

\* Two requests with one body and different tokens have both been sent the
\* same way to the local model and on to the upstream model.
C17_Witness ==
    /\ Len(cc) = 2
    /\ cc[1].req.body = cc[2].req.body
    /\ Header(1).value # Header(2).value
    /\ CarriesToken(1) /\ CarriesToken(2)
    /\ cc[1].localSent # <<>> /\ cc[1].localSent = cc[2].localSent
    /\ Len(cc[1].upstreamSent) = 1 /\ Len(cc[2].upstreamSent) = 1
    /\ cc[1].upstreamSent[1].key # cc[2].upstreamSent[1].key
    /\ cc[1].env = cc[2].env /\ cc[1].log = cc[2].log
    /\ cc[1].pc = "done" /\ cc[2].pc = "done"

====
